---- MODULE Spec2Model ----
(***************************************************************************)
(* Model of process/process_dataset.py of HiEST/edgeautotuner:             *)
(*   - process_dataset: the chunked, checkpointed dataset loop, with the   *)
(*     ThreadPoolExecutor whose map() yields results in submission order;  *)
(*   - get_top_torch: the classification top-K reduction.                  *)
(* A video is a number 1..n (its position in the mtime-sorted dataset); a  *)
(* row of the detections table is <<video, frame_id>>: every other column  *)
(* of the row (cam, timestamp, date, hour, minute, model) is a function of *)
(* the video's file name and of the run's arguments.                       *)
(***************************************************************************)
EXTENDS Integers, Sequences, FiniteSets, TLC

\* Bounds of the model.
MaxVideos ==
    3
MaxWorkers ==
    2
MaxFrames ==
    2
MaxPre ==
    1
MaxPredLen ==
    7
MaxScore ==
    1
SmallTopn ==
    2

\* Constants of the program.
DefaultTopn ==
    10
PartitionKth ==
    5

VARIABLES
    pc,                 \* position of the coordinator thread in process_dataset
    dataset,            \* argument: the videos, in enumeration order
    framework,          \* argument: "torch" or "tf"
    process_all,        \* argument: FALSE is the --fast mode
    per_video_results,  \* argument
    move_when_done,     \* argument: TRUE when a relocation target is given
    cfg_workers,        \* argument max_workers as configured
    pkl,                \* videos with a <stem>.pkl file in the output directory
    tmp,                \* *.tmp.csv.<i> files of the output directory: index -> content
    final,              \* contents written to <dataset_name>.csv, in order
    query_args,         \* local query_args (the video of each task)
    max_workers,        \* local max_workers after line 222-223
    previous_tmp_files, \* local previous_tmp_files
    chunk_idx,          \* index of the chunk being processed (or of the next one)
    chunk,              \* the chunk being processed
    r_idx,              \* number of results of the chunk already taken from map()
    filename,           \* local filename (the video of the last result taken)
    task,               \* video -> state of its future in the executor
    result,             \* video -> number of rows returned by process_video
    detections,         \* the accumulated table
    videos_processed,   \* the completion counters (a defaultdict(int))
    moved,              \* videos moved to the relocation target
    pre_existing,       \* history: the checkpoint indices present at startup
    writes,             \* history: the checkpoint writes, [wave, idx], in order
    finished,           \* history: videos of the wave in the order their tasks returned
    preds,              \* get_top_torch: the score vector (hundredths)
    topn,               \* get_top_torch: the argument topn
    top                 \* get_top_torch: what the call produced

vars ==
    << pc, dataset, framework, process_all, per_video_results, move_when_done,
       cfg_workers, pkl, tmp, final, query_args, max_workers,
       previous_tmp_files, chunk_idx, chunk, r_idx, filename, task, result,
       detections, videos_processed, moved, pre_existing, writes,
       finished, preds, topn, top >>

dsVars ==
    << pc, dataset, framework, process_all, per_video_results, move_when_done,
       cfg_workers, pkl, tmp, final, query_args, max_workers,
       previous_tmp_files, chunk_idx, chunk, r_idx, filename, task, result,
       detections, videos_processed, moved, pre_existing, writes,
       finished >>

topVars ==
    << preds, topn, top >>

Videos ==
    1..MaxVideos

Min(a, b) ==
    IF a <= b THEN a ELSE b

SetMax(S) ==
    CHOOSE x \in S : \A y \in S : y <= x

Range(s) ==
    { s[i] : i \in 1..Len(s) }

IsPrefix(s, t) ==
    /\ Len(s) <= Len(t)
    /\ s = SubSeq(t, 1, Len(s))

(***************************************************************************)
(* main(): the model registry.  The torch setup registers 'edge' and       *)
(* 'ref', the tf setup registers the one model chosen.                     *)
(***************************************************************************)
LenModels(fw) ==
    IF fw = "torch" THEN 2 ELSE 1

(***************************************************************************)
(* The (camera, date, hour) bucket of a video's file name: consecutive     *)
(* videos 1,2 share an hour, 3,4 the next, ...                             *)
(***************************************************************************)
Bucket(v) ==
    (v + 1) \div 2

RECURSIVE FastVideos(_, _)
FastVideos(ds, seen) ==
    IF ds = << >> THEN << >>
    ELSE IF Bucket(Head(ds)) \in seen
         THEN FastVideos(Tail(ds), seen)
         ELSE << Head(ds) >> \o FastVideos(Tail(ds), seen \cup { Bucket(Head(ds)) })

RECURSIVE SkipProcessed(_, _)
SkipProcessed(vs, done) ==
    IF vs = << >> THEN << >>
    ELSE IF Head(vs) \in done
         THEN SkipProcessed(Tail(vs), done)
         ELSE << Head(vs) >> \o SkipProcessed(Tail(vs), done)

\* lines 192-217: the videos the run will process
QueryArgs(ds, all, perVideo, done) ==
    LET videos == IF all THEN ds ELSE FastVideos(ds, {})
    IN  IF perVideo THEN SkipProcessed(videos, done) ELSE videos

\* lines 222-223
ClampWorkers(n, w) ==
    IF n < w * 2 THEN n ELSE w

\* lines 226-229
PreviousTmpFiles(idxs) ==
    IF idxs # {} THEN SetMax(idxs) + 1 ELSE 0

\* chunks(lst, n): the i-th chunk (i from 0), for n > 0
ChunkAt(lst, n, i) ==
    SubSeq(lst, i * n + 1, Min(Len(lst), i * n + n))

\* rows appended for one non-empty result (lines 244-252)
ResultRows(v, n) ==
    [ i \in 1..n |-> << v, i - 1 >> ]

\* mutant of NextResult: results taken in completion order (as_completed)
NextResultAsCompleted(c, r) ==
    LET inChunk(v) == v \in Range(c)
        done == SelectSeq(finished, inChunk)
    IN  IF r + 1 <= Len(done) THEN done[r + 1] ELSE c[r + 1]

\* executor.map: the future whose result the iterator yields next
NextResult(c, r) ==
    c[r + 1]

\* mutant of ResultReady: the result is taken without waiting for the task
ResultReadyNoWait(st) ==
    st \in { "done", "running" }

\* the iterator blocks in future.result() until the task has returned
ResultReady(st) ==
    st = "done"

\* mutant of CountedVideo: the first video of the chunk is counted
CountedVideoFirst(c, last) ==
    c[1]

\* line 262: the loop variable filename after the for loop over the results
CountedVideo(c, last) ==
    last

\* mutant of ShouldMove: the number of models is not compared
ShouldMoveAnyCount(target, count, nmodels) ==
    target /\ count >= 1

\* lines 263-264
ShouldMove(target, count, nmodels) ==
    target /\ count = nmodels

\* mutant of OnTaskException: the exception is caught and the loop goes on
OnTaskExceptionCaught ==
    "results"

\* what the coordinator does when future.result() raises: nothing catches it
OnTaskException ==
    "aborting"

(***************************************************************************)
(* process_video under torch: get_top_torch returns strings, and the       *)
(* '.3f' format of a string at line 131 raises for every frame; with no    *)
(* frame nothing is formatted.  Under tf the rows are returned.            *)
(***************************************************************************)
ProcessVideoRaises(fw, n) ==
    fw = "torch" /\ n > 0

\* content of a checkpoint file left by an earlier run
OldRows ==
    << << 0, 0 >> >>

\* the checkpoint indices an earlier run can have left: 0..n-1, or MaxPre alone
PreExistingInputs ==
    { 0..(n - 1) : n \in 0..(MaxPre + 1) } \cup { { MaxPre } }

\* the videos an earlier run has left a .pkl file for: none, or one of them
PklInputs(ds) ==
    { {} } \cup { { v } : v \in Range(ds) }

Running ==
    { v \in Videos : task[v] = "running" }

TopIdle ==
    /\ preds = << >>
    /\ topn = 0
    /\ top = [ kind |-> "none" ]

Init ==
    /\ pc = "start"
    /\ \E n \in 0..MaxVideos : dataset = [ i \in 1..n |-> i ]
    /\ framework \in { "torch", "tf" }
    /\ process_all \in BOOLEAN
    /\ per_video_results \in BOOLEAN
    /\ move_when_done \in BOOLEAN
    /\ cfg_workers \in 1..MaxWorkers
    /\ pkl \in IF per_video_results THEN PklInputs(dataset) ELSE { {} }
    /\ pre_existing \in PreExistingInputs
    /\ tmp = [ i \in pre_existing |-> OldRows ]
    /\ final = << >>
    /\ query_args = << >>
    /\ max_workers = cfg_workers
    /\ previous_tmp_files = 0
    /\ chunk_idx = 0
    /\ chunk = << >>
    /\ r_idx = 0
    /\ filename = 0
    /\ task = [ v \in Videos |-> "none" ]
    /\ result = [ v \in Videos |-> 0 ]
    /\ detections = << >>
    /\ videos_processed = << >>
    /\ moved = {}
    /\ writes = << >>
    /\ finished = << >>
    /\ TopIdle

\* lines 183-229
Setup ==
    /\ pc = "start"
    /\ query_args' = QueryArgs(dataset, process_all, per_video_results, pkl)
    /\ max_workers' = ClampWorkers(Len(query_args'), cfg_workers)
    /\ previous_tmp_files' = PreviousTmpFiles(DOMAIN tmp)
    /\ pc' = "loop"
    /\ UNCHANGED << dataset, framework, process_all, per_video_results,
                    move_when_done, cfg_workers, pkl, tmp, final, chunk_idx,
                    chunk, r_idx, filename, task, result, detections,
                    videos_processed, moved, writes, finished, pre_existing, topVars >>

\* line 231 with a chunk size of 0: range(0, len(lst), 0) raises ValueError
ChunksValueError ==
    /\ pc = "loop"
    /\ max_workers * 2 = 0
    /\ pc' = "crashed"
    /\ UNCHANGED << dataset, framework, process_all, per_video_results,
                    move_when_done, cfg_workers, pkl, tmp, final, query_args,
                    max_workers, previous_tmp_files, chunk_idx, chunk, r_idx,
                    filename, task, result, detections, videos_processed,
                    moved, writes, finished, pre_existing, topVars >>

\* lines 231-233: the next chunk; every task of it is submitted at once
Dispatch ==
    /\ pc = "loop"
    /\ max_workers * 2 > 0
    /\ chunk_idx * (max_workers * 2) < Len(query_args)
    /\ chunk' = ChunkAt(query_args, max_workers * 2, chunk_idx)
    /\ task' = [ v \in Videos |-> IF v \in Range(chunk') THEN "queued" ELSE task[v] ]
    /\ r_idx' = 0
    /\ finished' = << >>
    /\ pc' = "results"
    /\ UNCHANGED << dataset, framework, process_all, per_video_results,
                    move_when_done, cfg_workers, pkl, tmp, final, query_args,
                    max_workers, previous_tmp_files, chunk_idx, filename,
                    result, detections, videos_processed, moved, writes,
                    pre_existing, topVars >>

\* lines 268-271, once chunks() is exhausted
Finalize ==
    /\ pc = "loop"
    /\ max_workers * 2 > 0
    /\ chunk_idx * (max_workers * 2) >= Len(query_args)
    /\ final' = Append(final, detections)
    /\ pc' = "done"
    /\ UNCHANGED << dataset, framework, process_all, per_video_results,
                    move_when_done, cfg_workers, pkl, tmp, query_args,
                    max_workers, previous_tmp_files, chunk_idx, chunk, r_idx,
                    filename, task, result, detections, videos_processed,
                    moved, writes, finished, pre_existing, topVars >>

\* a worker thread of the pool takes the oldest queued work item
StartTask(v) ==
    /\ pc \in { "results", "aborting" }
    /\ task[v] = "queued"
    /\ \A i \in 1..Len(chunk) :
          task[chunk[i]] = "queued" => \E j \in 1..i : chunk[j] = v
    /\ Cardinality(Running) < max_workers
    /\ task' = [ task EXCEPT ![v] = "running" ]
    /\ UNCHANGED << pc, dataset, framework, process_all, per_video_results,
                    move_when_done, cfg_workers, pkl, tmp, final, query_args,
                    max_workers, previous_tmp_files, chunk_idx, chunk, r_idx,
                    filename, result, detections, videos_processed, moved,
                    writes, finished, pre_existing, topVars >>

\* process_video_parallel returns n rows (lines 109-141)
FinishTask(v, n) ==
    /\ task[v] = "running"
    /\ ~ProcessVideoRaises(framework, n)
    /\ task' = [ task EXCEPT ![v] = "done" ]
    /\ result' = [ result EXCEPT ![v] = n ]
    /\ pkl' = IF per_video_results /\ n > 0 THEN pkl \cup { v } ELSE pkl
    /\ finished' = Append(finished, v)
    /\ UNCHANGED << pc, dataset, framework, process_all, per_video_results,
                    move_when_done, cfg_workers, tmp, final, query_args,
                    max_workers, previous_tmp_files, chunk_idx, chunk, r_idx,
                    filename, detections, videos_processed, moved, writes,
                    pre_existing, topVars >>

\* process_video_parallel raises; the future keeps the exception
RaiseTask(v) ==
    /\ task[v] = "running"
    /\ task' = [ task EXCEPT ![v] = "raised" ]
    /\ finished' = Append(finished, v)
    /\ UNCHANGED << pc, dataset, framework, process_all, per_video_results,
                    move_when_done, cfg_workers, pkl, tmp, final, query_args,
                    max_workers, previous_tmp_files, chunk_idx, chunk, r_idx,
                    filename, result, detections, videos_processed, moved,
                    writes, pre_existing, topVars >>

\* lines 235-260: one iteration of the loop over the results of map()
Collect ==
    /\ pc = "results"
    /\ r_idx < Len(chunk)
    /\ LET v == NextResult(chunk, r_idx)
           idx == chunk_idx + previous_tmp_files
       IN  /\ ResultReady(task[v])
           /\ filename' = chunk[r_idx + 1]
           /\ IF result[v] = 0
              THEN UNCHANGED << detections, tmp, writes >>
              ELSE /\ detections' = detections \o ResultRows(v, result[v])
                   /\ tmp' = (idx :> detections') @@ tmp
                   /\ writes' = Append(writes, [ wave |-> chunk_idx, idx |-> idx ])
    /\ r_idx' = r_idx + 1
    /\ UNCHANGED << pc, dataset, framework, process_all, per_video_results,
                    move_when_done, cfg_workers, pkl, final, query_args,
                    max_workers, previous_tmp_files, chunk_idx, chunk, task,
                    result, videos_processed, moved, finished, pre_existing, topVars >>

\* the iterator re-raises the task's exception: the futures not yet started
\* are cancelled and the with block waits for the running ones
CollectException ==
    /\ pc = "results"
    /\ r_idx < Len(chunk)
    /\ task[NextResult(chunk, r_idx)] = "raised"
    /\ pc' = OnTaskException
    /\ IF pc' = "aborting"
       THEN /\ task' = [ v \in Videos |->
                            IF task[v] = "queued" THEN "cancelled" ELSE task[v] ]
            /\ r_idx' = r_idx
       ELSE /\ task' = task
            /\ r_idx' = r_idx + 1
    /\ UNCHANGED << dataset, framework, process_all, per_video_results,
                    move_when_done, cfg_workers, pkl, tmp, final, query_args,
                    max_workers, previous_tmp_files, chunk_idx, chunk,
                    filename, result, detections, videos_processed, moved,
                    writes, finished, pre_existing, topVars >>

\* executor.shutdown(wait=True) returns and the exception leaves process_dataset
Abort ==
    /\ pc = "aborting"
    /\ Running = {}
    /\ pc' = "aborted"
    /\ UNCHANGED << dataset, framework, process_all, per_video_results,
                    move_when_done, cfg_workers, pkl, tmp, final, query_args,
                    max_workers, previous_tmp_files, chunk_idx, chunk, r_idx,
                    filename, task, result, detections, videos_processed,
                    moved, writes, finished, pre_existing, topVars >>

\* lines 262-266, then the end of the with block and of the loop body
EndWave ==
    /\ pc = "results"
    /\ r_idx = Len(chunk)
    /\ LET f == CountedVideo(chunk, filename)
           count == IF f \in DOMAIN videos_processed
                    THEN videos_processed[f] + 1 ELSE 1
       IN  IF ShouldMove(move_when_done, count, LenModels(framework))
           THEN /\ moved' = moved \cup { f }
                /\ videos_processed' =
                      [ x \in DOMAIN videos_processed \ { f } |-> videos_processed[x] ]
           ELSE /\ moved' = moved
                /\ videos_processed' = (f :> count) @@ videos_processed
    /\ chunk_idx' = chunk_idx + 1
    /\ pc' = "loop"
    /\ UNCHANGED << dataset, framework, process_all, per_video_results,
                    move_when_done, cfg_workers, pkl, tmp, final, query_args,
                    max_workers, previous_tmp_files, chunk, r_idx, filename,
                    task, result, detections, writes, finished, pre_existing, topVars >>

Next ==
    \/ Setup
    \/ ChunksValueError
    \/ Dispatch
    \/ Finalize
    \/ \E v \in Videos : StartTask(v)
    \/ \E v \in Videos : \E n \in 0..MaxFrames : FinishTask(v, n)
    \/ \E v \in Videos : RaiseTask(v)
    \/ Collect
    \/ CollectException
    \/ Abort
    \/ EndWave

Spec ==
    Init /\ [][Next]_vars

(***************************************************************************)
(* get_top_torch(preds, topn=10).  preds is a sequence of scores (in       *)
(* hundredths); the index numpy gives entry preds[i] is i - 1.             *)
(***************************************************************************)
RECURSIVE Perms(_)
Perms(S) ==
    IF S = {} THEN { << >> }
    ELSE UNION { { << x >> \o p : p \in Perms(S \ { x }) } : x \in S }

\* np.argpartition(-a, kth): every arrangement of the indices in which the
\* entry at position kth is where a sort would put it, no greater score
\* stands after it and no smaller score before it; which of them numpy
\* returns is not specified.
ArgPartition(a, kth) ==
    LET Idx == 0..(Len(a) - 1)
        neg(i) == 0 - a[i + 1]
    IN  UNION { UNION { { lo \o << pv >> \o hi :
                              lo \in Perms(Low), hi \in Perms(Idx \ (Low \cup { pv })) } :
                        Low \in { L \in SUBSET (Idx \ { pv }) :
                                     /\ Cardinality(L) = kth
                                     /\ \A l \in L : neg(l) <= neg(pv)
                                     /\ \A h \in Idx \ (L \cup { pv }) : neg(h) >= neg(pv) } } :
                pv \in Idx }

Digit(d) ==
    ToString(d)

\* f'{x:.2f}' of a score of h hundredths
Format2f(h) ==
    ToString(h \div 100) \o "." \o Digit((h % 100) \div 10) \o Digit(h % 10)

\* line 59 raises ValueError when kth is out of bounds
ArgPartitionRaises(a, kth) ==
    kth >= Len(a)

\* lines 57-58
ClampTopn(a, n) ==
    IF n > Len(a) THEN Len(a) ELSE n

\* lines 60-62, for the indices idxs
TopResults(a, idxs) ==
    [ i \in 1..Len(idxs) |-> << ToString(idxs[i]), Format2f(a[idxs[i] + 1]) >> ]

\* lines 64-68
TopOf(results) ==
    [ kind |-> "returned", idxs |-> results[1], scores |-> results[2] ]

\* the score vectors handed to get_top_torch
PredsInputs ==
    UNION { [ 1..n -> 0..MaxScore ] : n \in 1..MaxPredLen }
        \cup { [ i \in 1..(DefaultTopn + 1) |-> (i * 3) % (DefaultTopn + 1) ] }

DatasetIdle ==
    /\ pc = "idle"
    /\ dataset = << >>
    /\ framework = "torch"
    /\ process_all = TRUE
    /\ per_video_results = FALSE
    /\ move_when_done = FALSE
    /\ cfg_workers = 1
    /\ pkl = {}
    /\ pre_existing = {}
    /\ tmp = << >>
    /\ final = << >>
    /\ query_args = << >>
    /\ max_workers = 1
    /\ previous_tmp_files = 0
    /\ chunk_idx = 0
    /\ chunk = << >>
    /\ r_idx = 0
    /\ filename = 0
    /\ task = [ v \in Videos |-> "none" ]
    /\ result = [ v \in Videos |-> 0 ]
    /\ detections = << >>
    /\ videos_processed = << >>
    /\ moved = {}
    /\ writes = << >>
    /\ finished = << >>

InitTop ==
    /\ DatasetIdle
    /\ preds \in PredsInputs
    /\ topn \in { SmallTopn, DefaultTopn }
    /\ top = [ kind |-> "none" ]

\* get_top_torch returns
GetTopTorch ==
    /\ top.kind = "none"
    /\ ~ArgPartitionRaises(preds, PartitionKth)
    /\ ClampTopn(preds, topn) >= 2
    /\ \E part \in ArgPartition(preds, PartitionKth) :
          top' = TopOf(TopResults(preds, SubSeq(part, 1, ClampTopn(preds, topn))))
    /\ UNCHANGED << preds, topn, dsVars >>

\* get_top_torch raises: ValueError at line 59, or IndexError at lines 65-66
\* when there are fewer than two results
GetTopTorchRaises ==
    /\ top.kind = "none"
    /\ \/ ArgPartitionRaises(preds, PartitionKth)
       \/ ClampTopn(preds, topn) < 2
    /\ top' = [ kind |-> "raised" ]
    /\ UNCHANGED << preds, topn, dsVars >>

NextTop ==
    \/ GetTopTorch
    \/ GetTopTorchRaises

SpecTop ==
    InitTop /\ [][NextTop]_vars

(***************************************************************************)
(* Properties of process_dataset.                                          *)
(***************************************************************************)
NoTaskRaised ==
    \A v \in Videos : task[v] # "raised"

\* the results taken from map() so far, over all waves
NumCollected ==
    IF pc = "start" THEN 0
    ELSE IF pc \in { "loop", "done", "crashed" }
         THEN Min(Len(query_args), chunk_idx * (max_workers * 2))
         ELSE chunk_idx * (max_workers * 2) + r_idx

RECURSIVE ConcatRows(_)
ConcatRows(vs) ==
    IF vs = << >> THEN << >>
    ELSE [ i \in 1..result[Head(vs)] |-> << Head(vs), i - 1 >> ] \o ConcatRows(Tail(vs))

RECURSIVE SumFrames(_)
SumFrames(vs) ==
    IF vs = << >> THEN 0 ELSE result[Head(vs)] + SumFrames(Tail(vs))

Count(v) ==
    IF v \in DOMAIN videos_processed THEN videos_processed[v] ELSE 0

NoRetry ==
    \A v \in Videos : task[v] = "raised" => task'[v] = "raised"

ExceptionNotCaught ==
    (/\ pc = "results"
     /\ r_idx < Len(chunk)
     /\ task[chunk[r_idx + 1]] = "raised"
     /\ << pc, r_idx, chunk_idx >>' # << pc, r_idx, chunk_idx >>)
    => pc' = "aborting"

NothingAfterAbort ==
    pc \in { "aborting", "aborted" } =>
        (/\ pc' \in { "aborting", "aborted" }
         /\ tmp' = tmp
         /\ final' = final
         /\ detections' = detections
         /\ chunk' = chunk
         /\ \A v \in Videos : task'[v] = "queued" => task[v] = "queued")

EarlierCheckpointsKept ==
    \A i \in DOMAIN tmp :
        i < chunk_idx + PreviousTmpFiles(pre_existing) =>
            (i \in DOMAIN tmp' /\ tmp'[i] = tmp[i])

WaveEndCounts ==
    IF chunk_idx' # chunk_idx
    THEN LET last == chunk[Len(chunk)]
             reached == move_when_done /\ Count(last) + 1 = LenModels(framework)
         IN  /\ \A v \in Videos \ { last } : Count(v)' = Count(v)
             /\ moved' = (IF reached THEN moved \cup { last } ELSE moved)
             /\ Count(last)' = (IF reached THEN 0 ELSE Count(last) + 1)
             /\ reached => last \notin DOMAIN videos_processed'
    ELSE /\ videos_processed' = videos_processed
         /\ moved' = moved

ResultAfterItsTasks ==
    r_idx' = r_idx + 1 => \A i \in 1..r_idx' : task[chunk[i]] = "done"

NoWriteWhileRunning ==
    (detections' # detections \/ tmp' # tmp) => Running = {}

TasksOfCurrentWave ==
    \A v \in Videos : task[v] \in { "queued", "running" } =>
        (pc \in { "results", "aborting" } /\ v \in Range(chunk))

\* C1: once wave k's results have been processed, whatever mix of empty and
\* non-empty results it returned, the checkpoint file of index k + offset
\* exists and holds the whole accumulated table as of the end of wave k.
C1_CheckpointAfterEveryWave ==
    (pc \in { "loop", "done" } /\ chunk_idx >= 1) =>
        LET idx == (chunk_idx - 1) + PreviousTmpFiles(pre_existing)
        IN  /\ idx \in DOMAIN tmp
            /\ tmp[idx] = detections

\* C2: a run in which no task raises, over any number of videos (zero
\* included), does not fail, and when it ends it has written the final file
\* exactly once, with the whole accumulated table.
C2_FinalFileWrittenOnce ==
    NoTaskRaised =>
        /\ pc \notin { "crashed", "aborting", "aborted" }
        /\ Len(final) <= 1
        /\ pc = "done" => final = << detections >>

\* C3: every checkpoint written has an index above every index present at
\* startup, a later wave uses a greater index than an earlier one, and the
\* first checkpoint written is index 2 when 0 and 1 were present, index 0
\* when none was.
C3_CheckpointIndices ==
    /\ \A i \in 1..Len(writes) : \A p \in pre_existing : writes[i].idx > p
    /\ \A i, j \in 1..Len(writes) :
          writes[i].wave < writes[j].wave => writes[i].idx < writes[j].idx
    /\ (writes # << >> /\ pre_existing = { 0, 1 }) => writes[1].idx = 2
    /\ (writes # << >> /\ pre_existing = {}) => writes[1].idx = 0

\* C4: at every moment the accumulated table is the concatenation, in
\* submission order, of the rows of the results taken so far (an empty
\* result gives no row), its length is the sum of their frame counts, and a
\* step only ever appends to it.
C4_TableIsOrderedConcat ==
    /\ [](/\ detections = ConcatRows(SubSeq(query_args, 1, NumCollected))
          /\ Len(detections) = SumFrames(SubSeq(query_args, 1, NumCollected)))
    /\ [][IsPrefix(detections, detections')]_vars

\* C4 witness: a finished run whose table holds rows of two videos of one
\* wave whose tasks returned in the order opposite to their submission.
C4_Witness ==
    /\ pc = "done"
    /\ \E i, j \in 1..Len(finished) :
          /\ i < j
          /\ finished[i] > finished[j]
          /\ result[finished[i]] > 0
          /\ result[finished[j]] > 0
          /\ task[finished[i]] = "done"
          /\ task[finished[j]] = "done"

C6_PoolBounded ==
    /\ pc = "results" => max_workers <= cfg_workers
    /\ Cardinality(Running) <= cfg_workers
    /\ Len(chunk) <= 2 * cfg_workers

TopSets(a, k) ==
    { T \in SUBSET (0..(Len(a) - 1)) :
         /\ Cardinality(T) = k
         /\ \A i \in T : \A j \in (0..(Len(a) - 1)) \ T : a[i + 1] >= a[j + 1] }

\* C9: get_top_torch returns, for a vector of more than K = topn scores, the
\* indices of K highest scores (in any order) with those scores, and for a
\* vector of at most K scores all of its indices.
C9_TopKIndices ==
    top.kind # "none" =>
        /\ top.kind = "returned"
        /\ LET k == Min(topn, Len(preds))
           IN  /\ Len(top.idxs) = k
               /\ Len(top.scores) = k
               /\ \E T \in TopSets(preds, k) :
                     /\ Range(top.idxs) = { ToString(i) : i \in T }
                     /\ \A x \in 1..k : \E i \in T :
                           /\ top.idxs[x] = ToString(i)
                           /\ top.scores[x] = Format2f(preds[i + 1])

====
